---- MODULE Spec2Model ----
(***************************************************************************)
(* A model of the nypto traffic classification pipeline:                   *)
(*   profiling.break_train_test      (window segmentation)                 *)
(*   profiling.extract_silence       (silence run extraction)              *)
(*   classification.improve_classification_history (temporal smoothing)    *)
(*   classification.main, method 0   (two model fusion)                    *)
(*   classification.binary_scores    (binary scores of a confusion matrix) *)
(* Every component has its own specification over the shared variables;    *)
(* the variables of the other components stay at their idle values.        *)
(***************************************************************************)
EXTENDS Integers, Sequences, FiniteSets, TLC

VARIABLES
    \* break_train_test
    data, obs_window, slide_window, train_percentage, random_split,
    seg_pc, data_obs, data_train, data_test, seg_outcome,
    \* improve_classification_history
    traffic_samples, traffic_idx, window_size, threshold,
    sm_pc, smoothed, sm_chunks, smoothed_again,
    \* main, method 0
    main_pc, n_test_rows, traffic_samples_number, y_raw, y_test_model1,
    possible_mining, silence_rows, y_test_model2, y_test,
    \* binary_scores, print_results
    conf_matrix, change_class, max_class, ev_pc, ev_outcome, scores, printed,
    \* extract_silence
    sil_data, sil_threshold, sil_pc, sil_outcome, silence, silence_rerun,
    \* extract_features_silence
    feat_data, feat_pc, feat_runs, features,
    \* extract_traffic_features
    class_windows, stack_idx, stack_pc, stack_features, stack_test_features,
    \* process_packets
    pp_pc, n_packets, clock, last_timestamp, last_bytes_up, last_bytes_down,
    last_npkts_up, last_npkts_down, outfile, accumulated

segVars == <<data, obs_window, slide_window, train_percentage, random_split,
             seg_pc, data_obs, data_train, data_test, seg_outcome>>

smVars == <<traffic_samples, traffic_idx, window_size, threshold,
            sm_pc, smoothed, sm_chunks, smoothed_again>>

mainVars == <<main_pc, n_test_rows, traffic_samples_number, y_raw, y_test_model1,
              possible_mining, silence_rows, y_test_model2, y_test>>

evVars == <<conf_matrix, change_class, max_class, ev_pc, ev_outcome, scores, printed>>

silVars == <<sil_data, sil_threshold, sil_pc, sil_outcome, silence, silence_rerun>>

featVars == <<feat_data, feat_pc, feat_runs, features>>

stackVars == <<class_windows, stack_idx, stack_pc, stack_features, stack_test_features>>

pktVars == <<pp_pc, n_packets, clock, last_timestamp, last_bytes_up, last_bytes_down,
             last_npkts_up, last_npkts_down, outfile, accumulated>>

restVars == <<featVars, stackVars, pktVars>>

vars == <<segVars, smVars, mainVars, evVars, silVars, restVars>>

----------------------------------------------------------------------------
(* Bounds of the model *)

\* longest sample sequence handed to break_train_test
MaxSamples == 7
\* largest observation window handed to break_train_test
MaxObsWindow == 3
\* longest label sequence handed to improve_classification_history
MaxLabels == 4
\* largest number of segments handed to improve_classification_history
MaxSegments == 2
\* largest window_size handed to improve_classification_history
MaxSmoothWindow == 4
\* largest number of test windows classified by main
MaxTestRows == 4
\* largest cell of a two class confusion matrix
MaxCell == 2
\* longest window column handed to extract_silence
MaxColumn == 4
\* most samples of a window handed to extract_features_silence
MaxFeatureSamples == 3
\* most traffic classes handed to extract_traffic_features
MaxClasses == 3
\* most packets of a capture, longest gap between two packets in ticks and
\* largest packet size
MaxPackets == 3
MaxGap == 5
MaxSize == 2

----------------------------------------------------------------------------
(* Python and numpy primitives *)

Min(a, b) == IF a <= b THEN a ELSE b

Max(a, b) == IF a >= b THEN a ELSE b

\* int(a / b) for b > 0: the quotient truncated toward zero
TruncDiv(a, b) == IF a >= 0 THEN a \div b ELSE -((-a) \div b)

\* a slice bound k of a sequence of length n: negative counts from the end, clipped
SliceBound(k, n) == IF k < 0 THEN Max(n + k, 0) ELSE Min(k, n)

\* s[lo:hi] with 0-based bounds, as a 1-based sequence
PySlice(s, lo, hi) ==
    LET a == SliceBound(lo, Len(s))
        b == SliceBound(hi, Len(s))
    IN  IF a >= b THEN <<>> ELSE SubSeq(s, a + 1, b)

\* np.concatenate of a sequence of blocks along axis 0
RECURSIVE Concatenate(_)
Concatenate(blocks) ==
    IF blocks = <<>> THEN <<>>
    ELSE Head(blocks) \o Concatenate(Tail(blocks))

\* the orders np.random.permutation(n) can return, as sequences over 0..n-1
PermutationOrders(n) ==
    IF n <= 0 THEN {<<>>}
    ELSE {p \in [1..n -> 0..(n - 1)] : \A a, b \in 1..n : p[a] = p[b] => a = b}

\* np.arange(n)
Arange(n) == IF n <= 0 THEN <<>> ELSE [k \in 1..n |-> k - 1]

----------------------------------------------------------------------------
(* profiling.break_train_test *)

WindowSize(obs, slide) == TruncDiv(obs, slide)

\* a window count that also counts the window ending at the last sample
NObsWindowsInclusive(n, obs, slide) == TruncDiv(n - obs, slide) + 1

NObsWindows(n, obs, slide) == TruncDiv(n - obs, slide)

\* data.reshape((k, slide, n_cols)) of the rows of d: the k blocks of slide rows,
\* a ValueError when the sizes differ; k = -1 asks numpy to infer the dimension
Reshape(d, k, slide) ==
    LET m == Len(d)
        kk == IF k = -1 /\ m % slide = 0 THEN m \div slide ELSE k
    IN  IF kk < 0 \/ kk * slide # m
        THEN [ok |-> FALSE, slices |-> <<>>]
        ELSE [ok |-> TRUE,
              slices |-> [b \in 1..kk |-> SubSeq(d, (b - 1) * slide + 1, b * slide)]]

\* np.concatenate(data_slices[i:window_size+i], axis=0)
ObsWindow(slices, i, wsize) == Concatenate(PySlice(slices, i, wsize + i))

\* int(n_obs_windows * train_percentage), train_percentage in hundredths
NTrainWindows(n_obs_windows, pct) == TruncDiv(n_obs_windows * pct, 100)

\* the whole function; order is the permutation drawn when random_split is set
BreakTrainTest(d, obs, slide, pct, order) ==
    LET wsize == WindowSize(obs, slide)
        n_obs_windows == NObsWindows(Len(d), obs, slide)
        n_samples == (n_obs_windows - 1) * slide + obs
        n_slide_windows == n_obs_windows + wsize - 1
        trimmed == PySlice(d, 0, n_samples)
        shaped == Reshape(trimmed, n_slide_windows, slide)
        obsw == IF n_obs_windows <= 0 THEN <<>>
                ELSE [w \in 1..n_obs_windows |->
                        ObsWindow(shaped.slices, w - 1, wsize)]
        n_train == NTrainWindows(n_obs_windows, pct)
        o_train == PySlice(order, 0, n_train)
        o_test == PySlice(order, n_train, Len(order))
    IN  IF ~shaped.ok
        THEN [outcome |-> "ValueError", data_obs |-> <<>>,
              train |-> <<>>, test |-> <<>>]
        ELSE IF n_obs_windows >= 1 /\ wsize = 0
        THEN \* np.concatenate of no blocks
             [outcome |-> "ValueError", data_obs |-> <<>>,
              train |-> <<>>, test |-> <<>>]
        ELSE IF n_obs_windows <= 0
        THEN \* np.array([]) has one dimension: data_obs[order[:0], :, :] fails
             [outcome |-> "IndexError", data_obs |-> obsw,
              train |-> <<>>, test |-> <<>>]
        ELSE [outcome |-> "returned", data_obs |-> obsw,
              train |-> [k \in 1..Len(o_train) |-> obsw[o_train[k] + 1]],
              test |-> [k \in 1..Len(o_test) |-> obsw[o_test[k] + 1]]]

\* the sample sequences: sample k of a dataset is named by its position
Dataset(n) == [k \in 1..n |-> k]

SegInit ==
    /\ data \in {Dataset(n) : n \in 0..MaxSamples}
    /\ obs_window \in 1..MaxObsWindow
    /\ slide_window \in 1..MaxObsWindow
    /\ train_percentage \in {0, 50, 100}
    /\ random_split \in BOOLEAN
    /\ seg_pc = "start"
    /\ data_obs = <<>>
    /\ data_train = <<>>
    /\ data_test = <<>>
    /\ seg_outcome = "pending"

SegIdle ==
    /\ data = <<>>
    /\ obs_window = 1
    /\ slide_window = 1
    /\ train_percentage = 50
    /\ random_split = FALSE
    /\ seg_pc = "idle"
    /\ data_obs = <<>>
    /\ data_train = <<>>
    /\ data_test = <<>>
    /\ seg_outcome = "pending"

CallBreakTrainTest ==
    /\ seg_pc = "start"
    /\ \E order \in (IF random_split
                     THEN PermutationOrders(NObsWindows(Len(data), obs_window, slide_window))
                     ELSE {Arange(NObsWindows(Len(data), obs_window, slide_window))}) :
         LET r == BreakTrainTest(data, obs_window, slide_window,
                                 train_percentage, order)
         IN  /\ data_obs' = r.data_obs
             /\ data_train' = r.train
             /\ data_test' = r.test
             /\ seg_outcome' = r.outcome
    /\ seg_pc' = "done"
    /\ UNCHANGED <<data, obs_window, slide_window, train_percentage, random_split>>
    /\ UNCHANGED <<smVars, mainVars, evVars, silVars, restVars>>

SegNext == CallBreakTrainTest

\* C1: for obs_window % slide_window = 0 and n > obs_window, break_train_test
\* builds exactly floor((n - obs_window) / slide_window) observation windows, and
\* window i holds the obs_window consecutive samples from position i * slide_window
\* on, in their order; the windows returned as train and test are those windows.
C1_WindowsAreConsecutiveSamples ==
    (seg_pc = "done" /\ obs_window % slide_window = 0 /\ Len(data) > obs_window) =>
        LET W == (Len(data) - obs_window) \div slide_window
        IN  /\ seg_outcome # "ValueError"
            /\ Len(data_obs) = W
            /\ \A i \in 0..(W - 1) :
                  data_obs[i + 1] =
                      [j \in 1..obs_window |-> data[i * slide_window + j]]
            /\ seg_outcome = "returned" =>
                  /\ Len(data_train) + Len(data_test) = W
                  /\ \A i \in 1..W :
                        \/ \E k \in 1..Len(data_train) : data_train[k] = data_obs[i]
                        \/ \E k \in 1..Len(data_test) : data_test[k] = data_obs[i]

\* overlapping windows were built, shuffled and split into a train and a test part
C1_Witness ==
    /\ seg_pc = "done"
    /\ seg_outcome = "returned"
    /\ obs_window % slide_window = 0
    /\ slide_window < obs_window
    /\ Len(data) > obs_window + slide_window
    /\ Len(data_obs) >= 3
    /\ random_split
    /\ data_train # <<>>
    /\ data_test # <<>>
    /\ data_test[1] = data_obs[1]

\* C9: for n <= obs_window break_train_test produces zero windows, that is empty
\* train and test sets, or flags the condition as InsufficientDataError.
C9_ShortSequenceYieldsNoWindows ==
    (seg_pc = "done" /\ Len(data) <= obs_window) =>
        \/ seg_outcome = "returned" /\ data_train = <<>> /\ data_test = <<>>
        \/ seg_outcome = "InsufficientDataError"

----------------------------------------------------------------------------
(* classification.classify_aggregation_window, improve_classification_history *)

\* the labels a classifier can give in the smoothing specification
SmoothLabels == {0, 1, 2}

\* thresholds in hundredths: 0.0, 0.5, 0.6 (the default) and 1.0
ThresholdPcts == {0, 50, 60, 100}

\* Counter(window)[x]
Count(w, x) == Cardinality({k \in 1..Len(w) : w[k] = x})

\* max(num_class, key=num_class.get): the keys of a Counter are kept in the order
\* of first occurrence and max returns the first key with the largest count
MaxRepetition(w) ==
    LET best == CHOOSE k \in 1..Len(w) :
                  /\ \A j \in 1..Len(w) : Count(w, w[j]) <= Count(w, w[k])
                  /\ \A j \in 1..(k - 1) : Count(w, w[j]) < Count(w, w[k])
    IN  w[best]

\* a smoothing that also replaces a chunk whose majority only reaches the threshold
ClassifyAtLeastThreshold(w, thr) ==
    LET max_repetition == MaxRepetition(w)
    IN  IF Count(w, max_repetition) * 100 >= thr * Len(w)
        THEN [k \in 1..Len(w) |-> max_repetition]
        ELSE w

\* num_class[max_repetition] / len(window) > threshold, threshold in hundredths
ClassifyAggregationWindow(w, thr) ==
    LET max_repetition == MaxRepetition(w)
    IN  IF Count(w, max_repetition) * 100 > thr * Len(w)
        THEN [k \in 1..Len(w) |-> max_repetition]
        ELSE w

\* l[lo:hi] = c
AssignSlice(l, lo, hi, c) == PySlice(l, 0, lo) \o c \o PySlice(l, hi, Len(l))

\* the while loop and the trailing if of one segment, from position i on;
\* chunks records the slices [lo, hi) that were classified
RECURSIVE SmoothSegment(_, _, _, _, _, _)
SmoothSegment(idx, chunks, i, ts, ws, thr) ==
    IF i + ws < ts
    THEN SmoothSegment(
             AssignSlice(idx, i, i + ws,
                         ClassifyAggregationWindow(PySlice(idx, i, i + ws), thr)),
             Append(chunks, <<i, i + ws>>), i + ws, ts, ws, thr)
    ELSE IF ts - i > 0
    THEN [idx |-> AssignSlice(idx, i, ts,
                              ClassifyAggregationWindow(PySlice(idx, i, ts), thr)),
          chunks |-> Append(chunks, <<i, ts>>)]
    ELSE [idx |-> idx, chunks |-> chunks]

\* for ts in traffic_samples: i = 0; ...: every segment starts again at position 0
RECURSIVE SmoothSegments(_, _, _, _, _, _)
SmoothSegments(samples, j, idx, chunks, ws, thr) ==
    IF j > Len(samples) THEN [idx |-> idx, chunks |-> chunks]
    ELSE LET r == SmoothSegment(idx, <<>>, 0, samples[j], ws, thr)
         IN  SmoothSegments(samples, j + 1, r.idx,
                 chunks \o [k \in 1..Len(r.chunks) |->
                              <<j, r.chunks[k][1], r.chunks[k][2]>>],
                 ws, thr)

\* the whole function: the smoothed labels and the chunks <<segment, lo, hi>>
ImproveClassificationHistory(samples, idx, ws, thr) ==
    SmoothSegments(samples, 1, idx, <<>>, ws, thr)

\* the sum of the first j segment lengths
RECURSIVE SegmentOffset(_, _)
SegmentOffset(samples, j) ==
    IF j = 0 THEN 0 ELSE samples[j] + SegmentOffset(samples, j - 1)

\* the sequences over S of length lo..hi
SeqsOf(S, lo, hi) == UNION {[1..n -> S] : n \in lo..hi}

SmInit ==
    /\ traffic_idx \in SeqsOf(SmoothLabels, 0, MaxLabels)
    /\ traffic_samples \in SeqsOf(0..Len(traffic_idx), 1, MaxSegments)
    /\ window_size \in 1..MaxSmoothWindow
    /\ threshold \in ThresholdPcts
    /\ sm_pc = "start"
    /\ smoothed = <<>>
    /\ sm_chunks = <<>>
    /\ smoothed_again = <<>>

SmIdle ==
    /\ traffic_idx = <<>>
    /\ traffic_samples = <<>>
    /\ window_size = 1
    /\ threshold = 60
    /\ sm_pc = "idle"
    /\ smoothed = <<>>
    /\ sm_chunks = <<>>
    /\ smoothed_again = <<>>

\* y = improve_classification_history(traffic_samples, traffic_idx, ...)
CallImprove ==
    /\ sm_pc = "start"
    /\ LET r == ImproveClassificationHistory(traffic_samples, traffic_idx,
                                             window_size, threshold)
       IN  /\ smoothed' = r.idx
           /\ sm_chunks' = r.chunks
    /\ sm_pc' = "smoothed"
    /\ UNCHANGED <<traffic_samples, traffic_idx, window_size, threshold,
                   smoothed_again>>
    /\ UNCHANGED <<segVars, mainVars, evVars, silVars, restVars>>

\* improve_classification_history(traffic_samples, y, ...) on its own output
CallImproveAgain ==
    /\ sm_pc = "smoothed"
    /\ smoothed_again' =
           ImproveClassificationHistory(traffic_samples, smoothed,
                                        window_size, threshold).idx
    /\ sm_pc' = "smoothed_again"
    /\ UNCHANGED <<traffic_samples, traffic_idx, window_size, threshold,
                   smoothed, sm_chunks>>
    /\ UNCHANGED <<segVars, mainVars, evVars, silVars, restVars>>

SmNext == CallImprove \/ CallImproveAgain

----------------------------------------------------------------------------
(* classification.main, method 0: two models *)

\* window_size=40 of improve_classification_history
DefaultWindowSize == 40

\* threshold=0.60 of improve_classification_history, in hundredths
DefaultThreshold == 60

\* x >= 13: the first label of the override range
MiningLabelMin == 13

\* labels of the first model, below, at and above the override range
BulkLabels == {12, 13, 14}

\* labels of the silence model
SilenceLabels == {13, 14}

\* a gate that leaves out the first label of the override range
PossibleMiningAbove(y) == {i \in 0..(Len(y) - 1) : y[i + 1] > MiningLabelMin}

\* [i for i, x in enumerate(y_test_model1) if x >= 13]
PossibleMining(y) == {i \in 0..(Len(y) - 1) : y[i + 1] >= MiningLabelMin}

\* [y_test_model2[i] if i in possible_mining else y_test_model1[i] for i in ...]
FuseLabels(y1, y2, mining) ==
    [k \in 1..Len(y1) |-> IF (k - 1) \in mining THEN y2[k] ELSE y1[k]]

MainInit ==
    /\ main_pc = "start"
    /\ n_test_rows \in 1..MaxTestRows
    \* one segment of test windows per traffic class
    /\ traffic_samples_number \in SeqsOf(0..n_test_rows, 1, MaxSegments)
    /\ SegmentOffset(traffic_samples_number, Len(traffic_samples_number)) = n_test_rows
    /\ y_raw = <<>>
    /\ y_test_model1 = <<>>
    /\ possible_mining = {}
    /\ silence_rows = {}
    /\ y_test_model2 = <<>>
    /\ y_test = <<>>

MainIdle ==
    /\ main_pc = "idle"
    /\ n_test_rows = 0
    /\ traffic_samples_number = <<>>
    /\ y_raw = <<>>
    /\ y_test_model1 = <<>>
    /\ possible_mining = {}
    /\ silence_rows = {}
    /\ y_test_model2 = <<>>
    /\ y_test = <<>>

\* y_test_model1 = classification_random_forests(...): one label per test row
ClassificationRandomForests ==
    /\ main_pc = "start"
    /\ \E result \in [1..n_test_rows -> BulkLabels] :
         /\ y_raw' = result
         /\ y_test_model1' = result
    /\ main_pc' = "model1"
    /\ UNCHANGED <<n_test_rows, traffic_samples_number, possible_mining,
                   silence_rows, y_test_model2, y_test>>
    /\ UNCHANGED <<segVars, smVars, evVars, silVars, restVars>>

\* y_test_model1 = improve_classification_history(traffic_samples_number, y_test_model1)
ImproveHistory ==
    /\ main_pc = "model1"
    /\ y_test_model1' =
           ImproveClassificationHistory(traffic_samples_number, y_test_model1,
                                        DefaultWindowSize, DefaultThreshold).idx
    /\ main_pc' = "smoothed"
    /\ UNCHANGED <<n_test_rows, traffic_samples_number, y_raw, possible_mining,
                   silence_rows, y_test_model2, y_test>>
    /\ UNCHANGED <<segVars, smVars, evVars, silVars, restVars>>

\* possible_mining = [i for i, x in enumerate(y_test_model1) if x >= 13]
SelectPossibleMining ==
    /\ main_pc = "smoothed"
    /\ possible_mining' = PossibleMining(y_test_model1)
    /\ main_pc' = "gated"
    /\ UNCHANGED <<n_test_rows, traffic_samples_number, y_raw, y_test_model1,
                   silence_rows, y_test_model2, y_test>>
    /\ UNCHANGED <<segVars, smVars, evVars, silVars, restVars>>

\* y_test_model2 = classification_silence(norm_pca_test_features[:, 24:32]):
\* the column slice keeps every row, and the model labels every row it is given
ClassificationSilence ==
    /\ main_pc = "gated"
    /\ silence_rows' = 0..(n_test_rows - 1)
    /\ \E result \in [1..n_test_rows -> SilenceLabels] : y_test_model2' = result
    /\ main_pc' = "model2"
    /\ UNCHANGED <<n_test_rows, traffic_samples_number, y_raw, y_test_model1,
                   possible_mining, y_test>>
    /\ UNCHANGED <<segVars, smVars, evVars, silVars, restVars>>

\* y_test = [y_test_model2[i] if i in possible_mining else y_test_model1[i] ...]
FuseModels ==
    /\ main_pc = "model2"
    /\ y_test' = FuseLabels(y_test_model1, y_test_model2, possible_mining)
    /\ main_pc' = "done"
    /\ UNCHANGED <<n_test_rows, traffic_samples_number, y_raw, y_test_model1,
                   possible_mining, silence_rows, y_test_model2>>
    /\ UNCHANGED <<segVars, smVars, evVars, silVars, restVars>>

MainNext ==
    \/ ClassificationRandomForests
    \/ ImproveHistory
    \/ SelectPossibleMining
    \/ ClassificationSilence
    \/ FuseModels

\* C5: in method 0 the final label of window i is the silence model's label when
\* the smoothed label of the first model is >= 13 and the smoothed label itself
\* otherwise; the gate reads the labels after smoothing.
C5_FinalLabelIsGatedOverride ==
    (main_pc = "done") =>
        /\ y_test_model1 =
               ImproveClassificationHistory(traffic_samples_number, y_raw,
                                            DefaultWindowSize, DefaultThreshold).idx
        /\ Len(y_test) = n_test_rows
        /\ \A k \in 1..n_test_rows :
             y_test[k] = IF y_test_model1[k] >= 13
                         THEN y_test_model2[k]
                         ELSE y_test_model1[k]

\* smoothing moved a window into the override range, one window was overridden
\* and another kept its smoothed label although the silence model disagreed
C5_Witness ==
    /\ main_pc = "done"
    /\ \E k \in 1..n_test_rows : y_raw[k] < 13 /\ y_test_model1[k] = 13
    /\ \E k \in 1..n_test_rows :
         y_test_model1[k] >= 13 /\ y_test[k] = y_test_model2[k]
           /\ y_test_model2[k] # y_test_model1[k]
    /\ \E k \in 1..n_test_rows :
         y_test_model1[k] < 13 /\ y_test[k] = y_test_model1[k]
           /\ y_test_model2[k] # y_test_model1[k]

\* C12: in method 0 the silence classifier is run on exactly the windows whose
\* smoothed label is >= 13: every such window is passed to it and no other
\* window is.
C12_SilenceModelRunsOnOverrideSubset ==
    (main_pc \in {"model2", "done"}) => silence_rows = possible_mining

----------------------------------------------------------------------------
(* classification.binary_scores, print_results *)

RECURSIVE Gcd(_, _)
Gcd(a, b) == IF b = 0 THEN a ELSE Gcd(b, a % b)

\* a / b of Python 2, where / on two integers is the floor division
FloorDivide(a, b) ==
    IF b = 0
    THEN [kind |-> IF a = 0 THEN "nan" ELSE "inf", num |-> 0, den |-> 0]
    ELSE [kind |-> "number", num |-> a \div b, den |-> 1]

\* a / b on two numpy integers: the quotient as a fraction in lowest terms, nan for
\* 0 / 0 and inf for a / 0 (numpy warns, and profiling.py silences the warnings)
Divide(a, b) ==
    IF b = 0
    THEN [kind |-> IF a = 0 THEN "nan" ELSE "inf", num |-> 0, den |-> 0]
    ELSE [kind |-> "number", num |-> a \div Gcd(a, b), den |-> b \div Gcd(a, b)]

\* the indices lo:hi selects on an axis of length n
SliceIndices(lo, hi, n) ==
    {k \in 0..(n - 1) : SliceBound(lo, n) <= k /\ k < SliceBound(hi, n)}

RECURSIVE SumCells(_, _)
SumCells(m, cells) ==
    IF cells = {} THEN 0
    ELSE LET c == CHOOSE x \in cells : TRUE
         IN  m[c[1] + 1][c[2] + 1] + SumCells(m, cells \ {c})

\* conf_matrix[r0:r1, c0:c1].sum(); row i holds the windows of true class i
SliceSum(m, r0, r1, c0, c1) ==
    SumCells(m, SliceIndices(r0, r1, Len(m)) \X SliceIndices(c0, c1, Len(m)))

BinaryScores(m, cc, mc) ==
    LET tp == SliceSum(m, 0, cc, 0, cc)
        fn == SliceSum(m, cc, mc + 1, 0, cc)
        fp == SliceSum(m, 0, cc, cc, mc + 1)
        tn == SliceSum(m, cc, mc + 1, cc, mc + 1)
    IN  [tp |-> tp, fn |-> fn, fp |-> fp, tn |-> tn,
         precision |-> Divide(tp, tp + fp),
         recall |-> Divide(tp, tp + fn),
         accuracy |-> Divide(tp + tn, tp + fp + fn + tn)]

\* the square matrices of k classes with cells in S
SquareMatrices(k, S) == [1..k -> [1..k -> S]]

\* the matrix of the evaluator scenario
ExampleMatrix == <<<<5, 1>>, <<2, 10>>>>

NoScores == [tp |-> 0, fn |-> 0, fp |-> 0, tn |-> 0,
             precision |-> Divide(0, 0), recall |-> Divide(0, 0),
             accuracy |-> Divide(0, 0)]

EvInit ==
    /\ conf_matrix \in SquareMatrices(2, 0..MaxCell) \cup {ExampleMatrix}
                          \cup SquareMatrices(3, {0, 1})
    \* a split with classes on both sides; max_class may lie past the last class,
    \* as in print_results(cm, 13, 31)
    /\ change_class \in 1..(Len(conf_matrix) - 1)
    /\ max_class \in change_class..Len(conf_matrix)
    /\ ev_pc = "start"
    /\ ev_outcome = "pending"
    /\ scores = NoScores
    /\ printed = <<>>

EvIdle ==
    /\ conf_matrix = <<>>
    /\ change_class = 0
    /\ max_class = 0
    /\ ev_pc = "idle"
    /\ ev_outcome = "pending"
    /\ scores = NoScores
    /\ printed = <<>>

\* print_results(confusion_matrix, mining_idx_start, mining_idx_end)
PrintResults ==
    /\ ev_pc = "start"
    /\ LET r == BinaryScores(conf_matrix, change_class, max_class)
       IN  /\ scores' = r
           /\ printed' = <<r.tp, r.fn, r.fp, r.tn, r.precision, r.recall, r.accuracy>>
    /\ ev_outcome' = "returned"
    /\ ev_pc' = "done"
    /\ UNCHANGED <<conf_matrix, change_class, max_class>>
    /\ UNCHANGED <<segVars, smVars, mainVars, silVars, restVars>>

EvNext == PrintResults

\* the sum of the cells whose true class is in rows and predicted class in cols
QuadrantSum(m, rows, cols) == SumCells(m, rows \X cols)

\* C6: with classes below split_low negative and classes split_low..split_high
\* positive, and cell[i][j] counting windows of true class i predicted as j, tp
\* sums the cells with both classes positive, tn those with both negative, fp
\* those with a negative true and a positive predicted class, fn the converse.
C6_QuadrantsOfPositiveRange ==
    (ev_pc = "done") =>
        LET classes == 0..(Len(conf_matrix) - 1)
            negative == {c \in classes : c < change_class}
            positive == {c \in classes : change_class <= c /\ c <= max_class}
        IN  /\ scores.tp = QuadrantSum(conf_matrix, positive, positive)
            /\ scores.tn = QuadrantSum(conf_matrix, negative, negative)
            /\ scores.fp = QuadrantSum(conf_matrix, negative, positive)
            /\ scores.fn = QuadrantSum(conf_matrix, positive, negative)

\* C7: for [[5,1],[2,10]] split at class 1 binary_scores returns tp=5, fn=2, fp=1,
\* tn=10, precision 5/6, recall 5/7 and accuracy 15/18; for every matrix with
\* non-zero denominators precision = tp/(tp+fp), recall = tp/(tp+fn) and
\* accuracy = (tp+tn)/(tp+fp+fn+tn) of the four sums returned.
C7_RatiosOfReturnedSums ==
    (ev_pc = "done") =>
        /\ (conf_matrix = ExampleMatrix /\ change_class = 1 /\ max_class = 1) =>
              /\ scores.tp = 5 /\ scores.fn = 2 /\ scores.fp = 1 /\ scores.tn = 10
              /\ scores.precision.kind = "number"
              /\ scores.precision.num * 6 = 5 * scores.precision.den
              /\ scores.recall.kind = "number"
              /\ scores.recall.num * 7 = 5 * scores.recall.den
              /\ scores.accuracy.kind = "number"
              /\ scores.accuracy.num * 18 = 15 * scores.accuracy.den
        /\ (scores.tp + scores.fp # 0) =>
              /\ scores.precision.kind = "number"
              /\ scores.precision.num * (scores.tp + scores.fp)
                   = scores.tp * scores.precision.den
        /\ (scores.tp + scores.fn # 0) =>
              /\ scores.recall.kind = "number"
              /\ scores.recall.num * (scores.tp + scores.fn)
                   = scores.tp * scores.recall.den
        /\ (scores.tp + scores.fp + scores.fn + scores.tn # 0) =>
              /\ scores.accuracy.kind = "number"
              /\ scores.accuracy.num
                     * (scores.tp + scores.fp + scores.fn + scores.tn)
                   = (scores.tp + scores.tn) * scores.accuracy.den

\* the scores of the example matrix were computed and printed
C7_Witness ==
    /\ ev_pc = "done"
    /\ conf_matrix = ExampleMatrix
    /\ change_class = 1
    /\ max_class = 1
    /\ printed[1] = 5
    /\ printed[5] = [kind |-> "number", num |-> 5, den |-> 6]

\* C8: when tp+fp, tp+fn or tp+fp+fn+tn is zero, binary_scores surfaces an
\* IndeterminateMetricError instead of returning an undefined value.
C8_ZeroDenominatorIsAnError ==
    (ev_pc = "done"
       /\ (\/ scores.tp + scores.fp = 0
           \/ scores.tp + scores.fn = 0
           \/ scores.tp + scores.fp + scores.fn + scores.tn = 0)) =>
        /\ ev_outcome = "IndeterminateMetricError"
        /\ scores.precision.kind # "nan"
        /\ scores.recall.kind # "nan"
        /\ scores.accuracy.kind # "nan"

----------------------------------------------------------------------------
(* profiling.extract_silence *)

\* threshold=256, the default of extract_silence
DefaultSilenceThreshold == 256

\* threshold=250, as extract_features_silence calls it
FeatureSilenceThreshold == 250

\* byte counts below, at and above the two thresholds
SampleValues == {0, 250, 251, 256, 257}

\* a test that takes a sample at the threshold for activity
SilentBelow(x, thr) == x < thr

\* data[i] <= threshold
Silent(x, thr) == x <= thr

\* the for loop from index i on (0-based); s[-1] += 1 on an empty list raises
RECURSIVE SilenceLoop(_, _, _, _)
SilenceLoop(d, thr, i, s) ==
    IF i >= Len(d) THEN [outcome |-> "returned", s |-> s]
    ELSE IF Silent(d[i + 1], thr)
    THEN IF d[i] > thr
         THEN SilenceLoop(d, thr, i + 1, Append(s, 1))
         ELSE IF d[i] <= thr
         THEN IF s = <<>>
              THEN [outcome |-> "IndexError", s |-> s]
              ELSE SilenceLoop(d, thr, i + 1, [s EXCEPT ![Len(s)] = @ + 1])
         ELSE SilenceLoop(d, thr, i + 1, s)
    ELSE SilenceLoop(d, thr, i + 1, s)

\* an extract_silence that returns the empty list when it found no run
ExtractSilenceNoPlaceholder(d, thr) ==
    SilenceLoop(d, thr, 1, IF Silent(d[1], thr) THEN <<1>> ELSE <<>>)

ExtractSilence(d, thr) ==
    LET r == SilenceLoop(d, thr, 1, IF Silent(d[1], thr) THEN <<1>> ELSE <<>>)
    IN  IF r.outcome # "returned" THEN r
        ELSE [outcome |-> "returned", s |-> IF r.s # <<>> THEN r.s ELSE <<0>>]

SilInit ==
    /\ sil_data \in SeqsOf(SampleValues, 1, MaxColumn)
    /\ sil_threshold \in {FeatureSilenceThreshold, DefaultSilenceThreshold}
    /\ sil_pc = "start"
    /\ sil_outcome = "pending"
    /\ silence = <<>>
    /\ silence_rerun = <<>>

SilIdle ==
    /\ sil_data = <<>>
    /\ sil_threshold = DefaultSilenceThreshold
    /\ sil_pc = "idle"
    /\ sil_outcome = "pending"
    /\ silence = <<>>
    /\ silence_rerun = <<>>

\* silence = extract_silence(data, threshold)
CallExtractSilence ==
    /\ sil_pc = "start"
    /\ LET r == ExtractSilence(sil_data, sil_threshold)
       IN  /\ silence' = r.s
           /\ sil_outcome' = r.outcome
    /\ sil_pc' = "done"
    /\ UNCHANGED <<sil_data, sil_threshold, silence_rerun>>
    /\ UNCHANGED <<segVars, smVars, mainVars, evVars, restVars>>

\* extract_silence(data, threshold) once more on the same data
CallExtractSilenceAgain ==
    /\ sil_pc = "done"
    /\ LET r == ExtractSilence(sil_data, sil_threshold)
       IN  /\ silence_rerun' = r.s
           /\ sil_outcome' = r.outcome
    /\ sil_pc' = "rerun"
    /\ UNCHANGED <<sil_data, sil_threshold, silence>>
    /\ UNCHANGED <<segVars, smVars, mainVars, evVars, restVars>>

SilNext == CallExtractSilence \/ CallExtractSilenceAgain

\* the maximal runs <<first, last>> of samples at or below the threshold
SilenceRuns(d, thr) ==
    {r \in (1..Len(d)) \X (1..Len(d)) :
        /\ r[1] <= r[2]
        /\ \A k \in r[1]..r[2] : d[k] <= thr
        /\ (r[1] = 1 \/ d[r[1] - 1] > thr)
        /\ (r[2] = Len(d) \/ d[r[2] + 1] > thr)}

RECURSIVE SumSeq(_)
SumSeq(q) == IF q = <<>> THEN 0 ELSE Head(q) + SumSeq(Tail(q))

\* C10: for a non-empty column extract_silence returns, in order of occurrence,
\* the length of every maximal run of samples at or below the threshold (a sample
\* equal to the threshold is silent; without such a sample the list holds no run
\* length, only the placeholder 0); the lengths sum to the number of samples at or
\* below the threshold, so to at most the column length; a second call on the same
\* data returns the same list.
C10_SilenceRunLengths ==
    (sil_pc \in {"done", "rerun"}) =>
        LET runs == SilenceRuns(sil_data, sil_threshold)
            found == SelectSeq(silence, LAMBDA x : x > 0)
            silent == {k \in 1..Len(sil_data) : sil_data[k] <= sil_threshold}
        IN  /\ sil_outcome = "returned"
            /\ Len(found) = Cardinality(runs)
            /\ runs # {} => found = silence
            /\ \A k \in 1..Len(found) :
                 \E r \in runs :
                   /\ found[k] = r[2] - r[1] + 1
                   /\ Cardinality({q \in runs : q[1] < r[1]}) = k - 1
            /\ SumSeq(silence) = Cardinality(silent)
            /\ SumSeq(silence) <= Len(sil_data)
            /\ sil_pc = "rerun" => silence_rerun = silence

\* two runs of different lengths, one of them ending in a sample at the threshold,
\* were found and found again
C10_Witness ==
    /\ sil_pc = "rerun"
    /\ Len(sil_data) = 4
    /\ sil_data[2] = sil_threshold
    /\ sil_data[3] > sil_threshold
    /\ silence = <<2, 1>>
    /\ silence_rerun = <<2, 1>>

\* the single segment case: traffic_samples holds the length of the label sequence
SmInitOneSegment ==
    /\ SmInit
    /\ traffic_samples = <<Len(traffic_idx)>>

SmNextOneSegment == CallImprove

\* the position at which label x occurs first in chunk c
FirstOccurrence(c, x) == CHOOSE k \in 1..Len(c) : c[k] = x /\ \A j \in 1..(k - 1) : c[j] # x

\* x is the most frequent label of chunk c, the first occurring one among equals
IsMajorityLabel(c, x) ==
    /\ \E k \in 1..Len(c) : c[k] = x
    /\ \A k \in 1..Len(c) :
         \/ Count(c, c[k]) < Count(c, x)
         \/ Count(c, c[k]) = Count(c, x) /\ FirstOccurrence(c, x) <= FirstOccurrence(c, c[k])

\* C2: for a single segment the result has the length of the input, and every
\* chunk of window_size labels (the last one may be shorter) is either replaced
\* entirely by its most frequent label, first occurring among equals, when that
\* label's fraction is strictly greater than threshold, or left unchanged.
C2_ChunksReplacedByMajority ==
    (sm_pc = "smoothed" /\ traffic_samples = <<Len(traffic_idx)>>) =>
        /\ Len(smoothed) = Len(traffic_idx)
        /\ \A b \in 0..Len(traffic_idx) :
             (b * window_size < Len(traffic_idx)) =>
                 LET lo == b * window_size
                     hi == Min(lo + window_size, Len(traffic_idx))
                     before == [k \in 1..(hi - lo) |-> traffic_idx[lo + k]]
                     after == [k \in 1..(hi - lo) |-> smoothed[lo + k]]
                 IN  \E x \in SmoothLabels :
                       /\ IsMajorityLabel(before, x)
                       /\ IF Count(before, x) * 100 > threshold * (hi - lo)
                          THEN \A k \in 1..(hi - lo) : after[k] = x
                          ELSE after = before

\* a single segment with a shorter last chunk in which smoothing changed a label
C2_Witness ==
    /\ sm_pc = "smoothed"
    /\ traffic_samples = <<Len(traffic_idx)>>
    /\ Len(traffic_idx) > window_size
    /\ Len(traffic_idx) % window_size # 0
    /\ threshold = 60
    /\ smoothed # traffic_idx

\* C3: with segment lengths summing to the number of labels, the chunks of
\* segment j lie inside that segment's own positions and every label position
\* belongs to exactly one chunk.
C3_ChunksStayInsideSegments ==
    (sm_pc = "smoothed"
       /\ SegmentOffset(traffic_samples, Len(traffic_samples)) = Len(traffic_idx)) =>
        /\ \A c \in 1..Len(sm_chunks) :
             LET j == sm_chunks[c][1]
             IN  /\ SegmentOffset(traffic_samples, j - 1) <= sm_chunks[c][2]
                 /\ sm_chunks[c][3] <= SegmentOffset(traffic_samples, j)
        /\ \A p \in 0..(Len(traffic_idx) - 1) :
             Cardinality({c \in 1..Len(sm_chunks) :
                            sm_chunks[c][2] <= p /\ p < sm_chunks[c][3]}) = 1

\* C4: smoothing the smoothed labels again, with the same parameters, returns
\* them unchanged.
C4_SmoothingIsIdempotent ==
    (sm_pc = "smoothed_again") => smoothed_again = smoothed

----------------------------------------------------------------------------
(* the idle values of the feature, stacking and packet components *)

FeatIdle ==
    /\ feat_data = <<>>
    /\ feat_pc = "idle"
    /\ feat_runs = <<>>
    /\ features = <<>>

StackIdle ==
    /\ class_windows = <<>>
    /\ stack_idx = 0
    /\ stack_pc = "idle"
    /\ stack_features = <<>>
    /\ stack_test_features = <<>>

NoTraffic == [bytes_up |-> 0, bytes_down |-> 0, npkts_up |-> 0, npkts_down |-> 0]

PktIdle ==
    /\ pp_pc = "idle"
    /\ n_packets = 0
    /\ clock = 0
    /\ last_timestamp = -1
    /\ last_bytes_up = 0
    /\ last_bytes_down = 0
    /\ last_npkts_up = 0
    /\ last_npkts_down = 0
    /\ outfile = <<>>
    /\ accumulated = NoTraffic

RestIdle ==
    /\ FeatIdle
    /\ StackIdle
    /\ PktIdle

----------------------------------------------------------------------------
(* profiling.extract_features_silence *)

\* byte counts at and above the threshold extract_features_silence uses
FeatureValues == {250, 260}

\* the column of the silence scenario: ten samples of 260 bytes
ExampleColumn == [k \in 1..10 |-> 260]

\* the runs of a column, as extract_features_silence reads them
SilenceOf(column) == ExtractSilence(column, FeatureSilenceThreshold).s

RECURSIVE SumSquares(_)
SumSquares(q) == IF q = <<>> THEN 0 ELSE Head(q) * Head(q) + SumSquares(Tail(q))

\* np.mean(silence); nan for an empty list
Mean(q) == Divide(SumSeq(q), Len(q))

\* np.var(silence): the mean of the squared deviations from the mean
Var(q) == Divide(Len(q) * SumSquares(q) - SumSeq(q) * SumSeq(q), Len(q) * Len(q))

\* silence_features of one window: np.append(..., [mean, var]) column by column
RECURSIVE SilenceFeatures(_, _)
SilenceFeatures(window, c) ==
    IF c > Len(window) THEN <<>>
    ELSE <<Mean(SilenceOf(window[c])), Var(SilenceOf(window[c]))>>
             \o SilenceFeatures(window, c + 1)

\* the whole function; data[i][c] is the column data[i, :, c]
ExtractFeaturesSilence(d) == [i \in 1..Len(d) |-> SilenceFeatures(d[i], 1)]

\* the arrays of w windows, n samples and c columns
WindowArrays(w, n, c) == [1..w -> [1..c -> [1..n -> FeatureValues]]]

FeatInit ==
    /\ feat_data \in UNION {WindowArrays(w, n, c) :
                              w \in 1..2, n \in 1..MaxFeatureSamples, c \in 1..2}
                       \cup {<<<<ExampleColumn>>>>}
    /\ feat_pc = "start"
    /\ feat_runs = <<>>
    /\ features = <<>>

\* features_silence = extract_features_silence(data)
CallExtractFeaturesSilence ==
    /\ feat_pc = "start"
    /\ feat_runs' = [i \in 1..Len(feat_data) |->
                       [c \in 1..Len(feat_data[i]) |-> SilenceOf(feat_data[i][c])]]
    /\ features' = ExtractFeaturesSilence(feat_data)
    /\ feat_pc' = "done"
    /\ UNCHANGED feat_data
    /\ UNCHANGED <<segVars, smVars, mainVars, evVars, silVars, stackVars, pktVars>>

FeatNext == CallExtractFeaturesSilence

Zero == [kind |-> "number", num |-> 0, den |-> 1]

\* C11: for a column without a sample at or below the threshold extract_silence
\* returns the single run [0] and extract_features_silence emits mean 0 and
\* variance 0 for it; every window gets two values per column.
C11_NoSilenceYieldsZeroPair ==
    (feat_pc = "done") =>
        \A i \in 1..Len(feat_data) :
            /\ Len(features[i]) = 2 * Len(feat_data[i])
            /\ \A c \in 1..Len(feat_data[i]) :
                 (\A k \in 1..Len(feat_data[i][c]) : feat_data[i][c][k] > 250) =>
                     /\ feat_runs[i][c] = <<0>>
                     /\ features[i][2 * c - 1] = Zero
                     /\ features[i][2 * c] = Zero

\* the features of the constant 260 column of length 10 were computed
C11_Witness ==
    /\ feat_pc = "done"
    /\ feat_data = <<<<ExampleColumn>>>>
    /\ feat_runs = <<<<<<0>>>>>>
    /\ features = <<<<Zero, Zero>>>>

----------------------------------------------------------------------------
(* profiling.extract_traffic_features: per-class truncation and stacking *)

\* train_percentage=0.5, the default traffic_profiling leaves in force
ProfilingTrainPercentage == 50

\* f = f[:184]
TruncateRows == 184

\* observation windows a class's dataset can yield; around 2 * 184 the train
\* and test halves straddle the truncation
WindowCounts == {2, 4, 366, 368, 370, 380}

\* rows of a class's feature array, one per observation window lo..hi-1
FeatureRows(c, lo, hi) == [k \in 1..(hi - lo) |-> <<c, lo + k - 1>>]

\* traffic_profiling: features of data_train and of data_test, with n_obs
ClassTrafficProfiling(c, n_obs_windows) ==
    LET n_train_windows == NTrainWindows(n_obs_windows, ProfilingTrainPercentage)
    IN  [f |-> FeatureRows(c, 0, n_train_windows),
         tf |-> FeatureRows(c, n_train_windows, n_obs_windows),
         n_obs |-> n_train_windows]

\* f[:184]
Truncate(rows) == PySlice(rows, 0, TruncateRows)

\* np.vstack((features, [f])) succeeds when f has the rows of the blocks stacked
CanStack(blocks, rows) == \A b \in 1..Len(blocks) : Len(blocks[b]) = Len(rows)

StackInit ==
    /\ class_windows \in UNION {[1..n -> WindowCounts] : n \in 1..MaxClasses}
    /\ stack_idx = 0
    /\ stack_pc = "loop"
    /\ stack_features = <<>>
    /\ stack_test_features = <<>>

\* one iteration of "for d_idx in datasets_filepath"
StackClass ==
    /\ stack_pc = "loop"
    /\ stack_idx < Len(class_windows)
    /\ LET c == stack_idx + 1
           p == ClassTrafficProfiling(c, class_windows[c])
           f == Truncate(p.f)
           tf == Truncate(p.tf)
       IN  IF stack_idx = 0
           THEN /\ stack_features' = <<f>>
                /\ stack_test_features' = <<tf>>
                /\ stack_idx' = c
                /\ stack_pc' = "loop"
           ELSE IF ~CanStack(stack_features, f)
           THEN /\ stack_pc' = "ValueError"
                /\ UNCHANGED <<stack_idx, stack_features, stack_test_features>>
           ELSE IF ~CanStack(stack_test_features, tf)
           THEN /\ stack_features' = Append(stack_features, f)
                /\ stack_pc' = "ValueError"
                /\ UNCHANGED <<stack_idx, stack_test_features>>
           ELSE /\ stack_features' = Append(stack_features, f)
                /\ stack_test_features' = Append(stack_test_features, tf)
                /\ stack_idx' = c
                /\ stack_pc' = "loop"
    /\ UNCHANGED class_windows
    /\ UNCHANGED <<segVars, smVars, mainVars, evVars, silVars, featVars, pktVars>>

\* all_features.reshape(shape[0] * shape[1], shape[2]) for train and for test
StackReshape ==
    /\ stack_pc = "loop"
    /\ stack_idx = Len(class_windows)
    /\ stack_features' = Concatenate(stack_features)
    /\ stack_test_features' = Concatenate(stack_test_features)
    /\ stack_pc' = "done"
    /\ UNCHANGED <<class_windows, stack_idx>>
    /\ UNCHANGED <<segVars, smVars, mainVars, evVars, silVars, featVars, pktVars>>

StackNext ==
    \/ StackClass
    \/ StackReshape

\* rows of class c in a feature matrix
RowsOfClass(matrix, c) == Cardinality({k \in 1..Len(matrix) : matrix[k][1] = c})

\* smallest number of train windows and of test windows among the classes
MinTrainWindows ==
    LET counts == {ClassTrafficProfiling(c, class_windows[c]).n_obs :
                       c \in 1..Len(class_windows)}
    IN  CHOOSE m \in counts : \A x \in counts : m <= x

MinTestWindows ==
    LET counts == {Len(ClassTrafficProfiling(c, class_windows[c]).tf) :
                       c \in 1..Len(class_windows)}
    IN  CHOOSE m \in counts : \A x \in counts : m <= x

\* C13: for every combination of per-class window counts the stacking succeeds
\* and every class contributes exactly the smallest train (resp. test) window
\* count among the classes to the train (resp. test) feature matrix.
C13_ClassesTruncatedToSmallestCount ==
    /\ stack_pc # "ValueError"
    /\ (stack_pc = "done") =>
           \A c \in 1..Len(class_windows) :
               /\ RowsOfClass(stack_features, c) = MinTrainWindows
               /\ RowsOfClass(stack_test_features, c) = MinTestWindows

----------------------------------------------------------------------------
(* parse_packets.save_to_file, process_packets *)

\* SAMPLE_DELTA = 0.5 seconds, in clock ticks of a quarter of a second
SAMPLE_DELTA == 2

\* packet_type: -1 no match, 0 sent by the local host to a remote port,
\* 1 received from a remote port
PacketTypes == {-1, 0, 1}

\* one line "bytes_up bytes_down npkts_up npkts_down" of the dataset
Row(bytes_up, bytes_down, npkts_up, npkts_down) ==
    [bytes_up |-> bytes_up, bytes_down |-> bytes_down,
     npkts_up |-> npkts_up, npkts_down |-> npkts_down]

\* save_to_file: the counters' row, then int(delta / SAMPLE_DELTA) - 1 zero rows
SaveToFile(file, delta, bytes_up, bytes_down, npkts_up, npkts_down) ==
    LET diff_intervals == TruncDiv(delta, SAMPLE_DELTA) - 1
    IN  Append(file, Row(bytes_up, bytes_down, npkts_up, npkts_down))
            \o [i \in 1..Max(diff_intervals, 0) |-> NoTraffic]

PktInit ==
    /\ pp_pc = "loop"
    /\ n_packets = 0
    /\ clock = 0
    /\ last_timestamp = -1
    /\ last_bytes_up = 0
    /\ last_bytes_down = 0
    /\ last_npkts_up = 0
    /\ last_npkts_down = 0
    /\ outfile = <<>>
    /\ accumulated = NoTraffic

\* one iteration of "for packet in tcp_cap": the packet arrives gap ticks after
\* the previous one; last_timestamp = -1 stands for None
ProcessPacket ==
    /\ pp_pc = "loop"
    /\ n_packets < MaxPackets
    /\ \E gap \in 0..MaxGap, packet_type \in PacketTypes, size \in 1..MaxSize :
         LET sniff_timestamp == clock + gap
             time_delta == sniff_timestamp - last_timestamp
         IN  /\ clock' = sniff_timestamp
             /\ n_packets' = n_packets + 1
             /\ IF packet_type = 0
                THEN /\ accumulated' =
                            [accumulated EXCEPT !.bytes_down = @ + size,
                                                !.npkts_down = @ + 1]
                     /\ IF last_timestamp = -1
                        THEN /\ last_timestamp' = sniff_timestamp
                             /\ last_bytes_down' = last_bytes_down + size
                             /\ last_npkts_down' = last_npkts_down + 1
                             /\ UNCHANGED outfile
                        ELSE IF time_delta > SAMPLE_DELTA
                        THEN /\ outfile' = SaveToFile(outfile, time_delta,
                                                last_bytes_up, last_bytes_down,
                                                last_npkts_up, last_npkts_down)
                             /\ last_timestamp' = sniff_timestamp
                             /\ last_bytes_down' = size
                             /\ last_npkts_down' = 1
                        ELSE /\ last_bytes_down' = last_bytes_down + size
                             /\ last_npkts_down' = last_npkts_down + 1
                             /\ UNCHANGED <<outfile, last_timestamp>>
                     /\ UNCHANGED <<last_bytes_up, last_npkts_up>>
                ELSE IF packet_type = 1
                THEN /\ accumulated' =
                            [accumulated EXCEPT !.bytes_up = @ + size,
                                                !.npkts_up = @ + 1]
                     /\ IF last_timestamp = -1
                        THEN /\ last_timestamp' = sniff_timestamp
                             /\ last_bytes_up' = last_bytes_up + size
                             /\ last_npkts_up' = last_npkts_up + 1
                             /\ UNCHANGED outfile
                        ELSE IF time_delta > SAMPLE_DELTA
                        THEN /\ outfile' = SaveToFile(outfile, time_delta,
                                                last_bytes_up, last_bytes_down,
                                                last_npkts_up, last_npkts_down)
                             /\ last_timestamp' = sniff_timestamp
                             /\ last_bytes_up' = size
                             /\ last_npkts_up' = 1
                        ELSE /\ last_bytes_up' = last_bytes_up + size
                             /\ last_npkts_up' = last_npkts_up + 1
                             /\ UNCHANGED <<outfile, last_timestamp>>
                     /\ UNCHANGED <<last_bytes_down, last_npkts_down>>
                ELSE UNCHANGED <<accumulated, outfile, last_timestamp,
                                 last_bytes_up, last_bytes_down,
                                 last_npkts_up, last_npkts_down>>
    /\ UNCHANGED pp_pc
    /\ UNCHANGED <<segVars, smVars, mainVars, evVars, silVars, featVars, stackVars>>

\* the capture ends: save_to_file(0, ...) writes the counters of the open interval
EndOfCapture ==
    /\ pp_pc = "loop"
    /\ outfile' = SaveToFile(outfile, 0, last_bytes_up, last_bytes_down,
                             last_npkts_up, last_npkts_down)
    /\ pp_pc' = "done"
    /\ UNCHANGED <<n_packets, clock, last_timestamp, last_bytes_up,
                   last_bytes_down, last_npkts_up, last_npkts_down, accumulated>>
    /\ UNCHANGED <<segVars, smVars, mainVars, evVars, silVars, featVars, stackVars>>

PktNext ==
    \/ ProcessPacket
    \/ EndOfCapture

\* the sum of each column over the rows written
RECURSIVE ColumnSums(_)
ColumnSums(file) ==
    IF file = <<>> THEN NoTraffic
    ELSE LET rest == ColumnSums(Tail(file))
         IN  Row(Head(file).bytes_up + rest.bytes_up,
                 Head(file).bytes_down + rest.bytes_down,
                 Head(file).npkts_up + rest.npkts_up,
                 Head(file).npkts_down + rest.npkts_down)

\* C14: at the end of the capture the sum of each column over all rows written
\* equals the bytes (resp. packets) of the matching packets accumulated into
\* that column: a flush restarts the counters of both directions and no packet
\* is counted in more than one row.
C14_RowsReportOwnIntervalOnly ==
    (pp_pc = "done") => ColumnSums(outfile) = accumulated

----------------------------------------------------------------------------
(* Specifications *)

InitSegment ==
    /\ SegInit
    /\ SmIdle
    /\ MainIdle
    /\ EvIdle
    /\ SilIdle
    /\ RestIdle

SpecSegment == InitSegment /\ [][SegNext]_vars

InitSmooth ==
    /\ SmInit
    /\ SegIdle
    /\ MainIdle
    /\ EvIdle
    /\ SilIdle
    /\ RestIdle

SpecSmooth == InitSmooth /\ [][SmNext]_vars

InitSmoothOneSegment ==
    /\ SmInitOneSegment
    /\ SegIdle
    /\ MainIdle
    /\ EvIdle
    /\ SilIdle
    /\ RestIdle

SpecSmoothOneSegment == InitSmoothOneSegment /\ [][SmNextOneSegment]_vars

InitMain ==
    /\ MainInit
    /\ SegIdle
    /\ SmIdle
    /\ EvIdle
    /\ SilIdle
    /\ RestIdle

SpecMain == InitMain /\ [][MainNext]_vars

InitScores ==
    /\ EvInit
    /\ SegIdle
    /\ SmIdle
    /\ MainIdle
    /\ SilIdle
    /\ RestIdle

SpecScores == InitScores /\ [][EvNext]_vars

InitSilence ==
    /\ SilInit
    /\ SegIdle
    /\ SmIdle
    /\ MainIdle
    /\ EvIdle
    /\ RestIdle

SpecSilence == InitSilence /\ [][SilNext]_vars

InitFeatures ==
    /\ FeatInit
    /\ SegIdle
    /\ SmIdle
    /\ MainIdle
    /\ EvIdle
    /\ SilIdle
    /\ StackIdle
    /\ PktIdle

SpecFeatures == InitFeatures /\ [][FeatNext]_vars

InitStack ==
    /\ StackInit
    /\ SegIdle
    /\ SmIdle
    /\ MainIdle
    /\ EvIdle
    /\ SilIdle
    /\ FeatIdle
    /\ PktIdle

SpecStack == InitStack /\ [][StackNext]_vars

InitPackets ==
    /\ PktInit
    /\ SegIdle
    /\ SmIdle
    /\ MainIdle
    /\ EvIdle
    /\ SilIdle
    /\ FeatIdle
    /\ StackIdle

SpecPackets == InitPackets /\ [][PktNext]_vars

====
